---- MODULE Spec2Model ----
(***************************************************************************)
(* Model of agents.py: the active ADP learning engine (estimate routines,  *)
(* the three exploration strategies, and the Agent that runs trials,       *)
(* extracts a policy and replays it).                                      *)
(*                                                                         *)
(* Utilities are Python floats in the source; here they are exact          *)
(* rationals <<numerator, denominator>> in lowest terms.  States and       *)
(* actions are small naturals; Python's max over (estimate, action) tuples *)
(* is the lexicographic maximum.                                           *)
(***************************************************************************)
EXTENDS Integers, Sequences, FiniteSets, TLC

\* ------------------------------------------------------------------ bounds
MaxTrials == 2      \* largest numOfTrials passed to learn
MaxItr == 2         \* largest maxItr option passed to a strategy
MaxCalls == 2       \* top-level calls made on one agent / module
MaxSolveSteps == 4  \* steps of solve followed in a never-ending environment
MaxSteps == 5       \* steps recorded in one set of tables before exploration stops
MaxCount == 2       \* largest successor count in a table handed to an estimate routine

\* --------------------------------------------------------- python values
None == -1
Empty == << >>

Get(d, k, default) == IF k \in DOMAIN d THEN d[k] ELSE default

Put(d, k, v) == [x \in (DOMAIN d) \cup {k} |-> IF x = k THEN v ELSE d[x]]

Len0(d) == Cardinality(DOMAIN d)

Range(s) == {s[i] : i \in DOMAIN s}

RECURSIVE SetToSeq(_)
SetToSeq(S) ==
    IF S = {} THEN << >>
    ELSE LET m == CHOOSE x \in S : \A y \in S : x <= y
         IN <<m>> \o SetToSeq(S \ {m})

\* ------------------------------------------------------------- rationals
Abs(x) == IF x < 0 THEN -x ELSE x

RECURSIVE GCD(_, _)
GCD(a, b) == IF b = 0 THEN a ELSE GCD(b, a % b)

Norm(n, d) ==
    LET g == GCD(Abs(n), Abs(d))
        s == IF d < 0 THEN -1 ELSE 1
    IN IF n = 0 THEN <<0, 1>> ELSE <<s * (n \div g), s * (d \div g)>>

RInt(i) == <<i, 1>>

RAdd(x, y) ==
    LET g == GCD(x[2], y[2])
    IN Norm(x[1] * (y[2] \div g) + y[1] * (x[2] \div g), (x[2] \div g) * y[2])

RMul(x, y) ==
    LET a == Norm(x[1], y[2])
        b == Norm(y[1], x[2])
    IN Norm(a[1] * b[1], a[2] * b[2])

\* a/b < c/d for b, d > 0, by integer parts and then the reciprocals of the
\* fractional parts (no product is formed).
RECURSIVE FracLess(_, _, _, _)
FracLess(a, b, c, d) ==
    IF a \div b # c \div d THEN a \div b < c \div d
    ELSE IF c % d = 0 THEN FALSE
    ELSE IF a % b = 0 THEN TRUE
    ELSE FracLess(d, c % d, b, a % b)

RLess(x, y) == FracLess(x[1], x[2], y[1], y[2])

RECURSIVE RSum(_)
RSum(s) == IF s = << >> THEN RInt(0) ELSE RAdd(s[1], RSum(Tail(s)))

\* ---------------------------------------------------------- environments
\* The environment is an external collaborator (import environments, l.2);
\* these are small conforming environments used as inputs.
\*   1 chain     0 -> 1 -> 2: action 1 advances, action 0 (legal in state 0)
\*               stays, action 2 (legal in state 1) goes back to state 0
\*   2 sink      one state, one action, never terminal, reward -2000
\*   3 xy        action 1 (X) ends with reward 10, action 0 (Y) with 0
\*   4 xyEmpty   as xy, but getActions of a terminal state is empty
\*   5 coin      action 0 stays or ends at random, action 1 ends
\*   6 drain     one state, never terminal, reward -400 or -600
\*   7 corridor  0 -> 1 -> 2: action 1 advances, action 0 stays; the only
\*               non-zero reward, 7, is given on entering the terminal state 2
Envs == 1..7

\* The environments learn is run against.
LearnEnvs == {1, 3, 4, 5, 7}

getStartingState(e) == 0

getActions(e, s) ==
    CASE e = 1 -> IF s = 0 THEN <<0, 1>> ELSE IF s = 1 THEN <<1, 2>> ELSE <<0>>
      [] e = 2 -> <<0>>
      [] e = 3 -> <<0, 1>>
      [] e = 4 -> IF s = 0 THEN <<0, 1>> ELSE << >>
      [] e = 5 -> IF s = 0 THEN <<0, 1>> ELSE <<0>>
      [] e = 6 -> <<0, 1>>
      [] e = 7 -> IF s = 2 THEN <<0>> ELSE <<0, 1>>

\* The states of an environment
StatesOf(e) == IF e \in {2, 6} THEN {0} ELSE IF e = 5 THEN {0, 1} ELSE {0, 1, 2}

\* do(state, action): the set of possible (newState, reward, isTerminal)
do(e, s, a) ==
    CASE e = 1 -> IF a = 0 THEN {<<s, -1, FALSE>>}
                  ELSE IF a = 2 THEN {<<0, -1, FALSE>>}
                  ELSE IF s = 0 THEN {<<1, 1, FALSE>>}
                  ELSE {<<2, 2, TRUE>>}
      [] e = 2 -> {<<0, -2000, FALSE>>}
      [] e = 3 -> IF a = 1 THEN {<<1, 10, TRUE>>} ELSE {<<2, 0, TRUE>>}
      [] e = 4 -> IF a = 1 THEN {<<1, 10, TRUE>>} ELSE {<<2, 0, TRUE>>}
      [] e = 5 -> IF a = 0 THEN {<<0, 1, FALSE>>, <<1, 3, TRUE>>}
                  ELSE {<<1, -1, TRUE>>}
      [] e = 6 -> IF a = 0 THEN {<<0, -400, FALSE>>} ELSE {<<0, -600, FALSE>>}
      [] e = 7 -> IF a = 0 THEN {<<s, 0, FALSE>>}
                  ELSE IF s = 0 THEN {<<1, 0, FALSE>>}
                  ELSE {<<2, 7, TRUE>>}

\* ------------------------------------------------------ step-size, l.20-28
_alpha(n) == Norm(50, 49 + n)

\* ------------------------------------------------- estimates, l.31-56
\* The candidate actions: currActions, or the actions recorded for currState
\* when currActions is empty or None (l.50).  A missing currActions is passed
\* as the empty sequence: `or` treats None and an empty sequence alike.
Candidates(transs, currState, currActions) ==
    IF currActions # << >> THEN currActions
    ELSE SetToSeq(DOMAIN Get(transs, currState, Empty))

\* Expected utility of one action (l.51-55): n == 0 gives an empty probs
\* mapping and the sum 0, no division being evaluated.
ExpectedUtility(transs, utils, currState, ac) ==
    LET freq == Get(Get(transs, currState, Empty), ac, Empty)
        keys == SetToSeq(DOMAIN freq)
        n == RSum([i \in DOMAIN keys |-> RInt(freq[keys[i]])])[1]
    IN RSum([i \in DOMAIN keys |->
              RMul(Norm(freq[keys[i]], n), Get(utils, keys[i], RInt(0)))])

ObservationCount(transs, currState, ac) ==
    LET freq == Get(Get(transs, currState, Empty), ac, Empty)
        keys == SetToSeq(DOMAIN freq)
    IN RSum([i \in DOMAIN keys |-> RInt(freq[keys[i]])])[1]

_getEstimates(transs, utils, currState, currActions) ==
    LET cand == Candidates(transs, currState, currActions)
    IN [i \in DOMAIN cand |->
          <<ExpectedUtility(transs, utils, currState, cand[i]), cand[i]>>]

\* (mutant) optimism as one flag for the whole call: R_plus for every action
\* as soon as one of them is under-sampled
EstimatesOptimisticGlobal(transs, utils, currState, R_plus, N_e, currActions) ==
    LET cand == Candidates(transs, currState, currActions)
    IN [i \in DOMAIN cand |->
          IF \E j \in DOMAIN cand : ObservationCount(transs, currState, cand[j]) < N_e
          THEN <<RInt(R_plus), cand[i]>>
          ELSE <<ExpectedUtility(transs, utils, currState, cand[i]), cand[i]>>]

\* (mutant) the division by n evaluated for every candidate, also when there
\* is no count to divide
DividesByZeroUnguarded(transs, currState, currActions) ==
    LET cand == Candidates(transs, currState, currActions)
    IN \E i \in DOMAIN cand : ObservationCount(transs, currState, cand[i]) = 0

\* float(val) / n at l.54 and l.73 raises ZeroDivisionError when a count is
\* divided by n = 0; the division is evaluated once per recorded successor.
DividesByZero(transs, currState, currActions) ==
    LET cand == Candidates(transs, currState, currActions)
    IN \E i \in DOMAIN cand :
          /\ Get(Get(transs, currState, Empty), cand[i], Empty) # Empty
          /\ ObservationCount(transs, currState, cand[i]) = 0

\* l.59-81
_getEstimatesOptimistic(transs, utils, currState, R_plus, N_e, currActions) ==
    LET cand == Candidates(transs, currState, currActions)
    IN [i \in DOMAIN cand |->
          IF ObservationCount(transs, currState, cand[i]) < N_e
          THEN <<RInt(R_plus), cand[i]>>
          ELSE <<ExpectedUtility(transs, utils, currState, cand[i]), cand[i]>>]

\* Python's max over a list of (estimate, action) tuples: greatest estimate,
\* then greatest action.  Only applied to a non-empty list; max([]) raises.
PairLess(p, q) == RLess(p[1], q[1]) \/ (p[1] = q[1] /\ p[2] < q[2])

\* (mutant) only the estimates compared, so that the first listed of several
\* equal ones wins
RECURSIVE MaxByEstimateFrom(_, _, _)
MaxByEstimateFrom(pairs, i, best) ==
    IF i > Len(pairs) THEN best
    ELSE MaxByEstimateFrom(pairs, i + 1,
                           IF RLess(best[1], pairs[i][1]) THEN pairs[i] ELSE best)

maxByEstimate(pairs) == MaxByEstimateFrom(pairs, 2, pairs[1])

\* max walks the list and keeps the first greatest element.
RECURSIVE MaxFrom(_, _, _)
MaxFrom(pairs, i, best) ==
    IF i > Len(pairs) THEN best
    ELSE MaxFrom(pairs, i + 1, IF PairLess(best, pairs[i]) THEN pairs[i] ELSE best)

max(pairs) == MaxFrom(pairs, 2, pairs[1])

\* ------------------------------------------------------------------ state
VARIABLES
    pc,             \* "idle", "learn", "loop", "ret", "solve", "solved", "fault"
    calls,          \* top-level calls made so far
    env,            \* the environment passed to the running call
    nTable,         \* Agent.nTable     (frequency table)
    transTable,     \* Agent.transTable (transition model)
    uTable,         \* Agent.uTable     (utilities)
    results,        \* Agent.results
    defaults,       \* the default transs/utils/freqs objects of each strategy
    owner,          \* whose tables the running episode was given
    alg,            \* the strategy being run
    kwargs,         \* the options of the running call
    state, reward, actions, bestAction, itr, isTerminal, t,   \* episode locals
    envCalls,       \* env.do calls made by the running episode or solve
    numOfTrials, trial, itrs,                                  \* learn locals
    policy, trace, energy,                                     \* solve locals
    executed,       \* (state, action, reward) of every step solve executed
    result,         \* value returned by the last completed top-level call
    hadExperience   \* whether the tables held anything when learn was last called

agentVars == <<nTable, transTable, uTable, results>>
episodeVars == <<state, reward, actions, bestAction, itr, isTerminal, t>>
learnVars == <<numOfTrials, trial, itrs>>
solveVars == <<policy, trace, energy, executed>>
vars == <<pc, calls, env, agentVars, defaults, owner, alg, kwargs, episodeVars,
          envCalls, learnVars, solveVars, result, hadExperience>>

Algs == {"adp_random_exploration", "adp_random_exploration_state",
         "adp_optimistic_rewards"}

EmptyTables == [transs |-> Empty, utils |-> Empty, freqs |-> Empty]

\* The tables the running episode mutates: the Agent's (learn, l.355-361) or
\* the strategy's own default arguments (l.83, l.175, l.242).
Tables ==
    IF owner = "agent"
    THEN [transs |-> transTable, utils |-> uTable, freqs |-> nTable]
    ELSE defaults[alg]

SetTables(tb) ==
    IF owner = "agent"
    THEN /\ transTable' = tb.transs
         /\ uTable' = tb.utils
         /\ nTable' = tb.freqs
         /\ UNCHANGED <<results, defaults>>
    ELSE /\ defaults' = [defaults EXCEPT ![alg] = tb]
         /\ UNCHANGED agentVars

\* ------------------------------------------------------------------ options
\* t and tStep are kept in tenths (t = 1, tStep = 0.8 by default).
DefaultKwargs(a) ==
    [t |-> 10, tStep |-> 8, alpha |-> "_alpha",
     maxItr |-> IF a = "adp_optimistic_rewards" THEN 10 ELSE 50,
     R_plus |-> 5, N_e |-> 12]

\* The option sets a caller draws from.
KwargsOf(a) ==
    {[DefaultKwargs(a) EXCEPT !.maxItr = m, !.alpha = al, !.t = t0, !.N_e = ne] :
        m \in 0..MaxItr, al \in {"_alpha", "unit"},
        t0 \in IF a = "adp_random_exploration" THEN {10, 20} ELSE {10},
        ne \in IF a = "adp_optimistic_rewards" THEN {1, 12} ELSE {12}}

\* A step-size function a caller may supply through the alpha option.
Schedule(name, n) == IF name = "_alpha" THEN _alpha(n) ELSE RInt(1)

Init ==
    /\ pc = "idle"
    /\ calls = 0
    /\ env = 1
    /\ nTable = Empty /\ transTable = Empty /\ uTable = Empty /\ results = << >>
    /\ defaults = [a \in Algs |-> EmptyTables]
    /\ owner = "agent"
    /\ alg = "adp_random_exploration"
    /\ kwargs = DefaultKwargs("adp_random_exploration")
    /\ state = 0 /\ reward = 0 /\ actions = << >> /\ bestAction = None
    /\ itr = 0 /\ isTerminal = FALSE /\ t = 10
    /\ envCalls = 0
    /\ numOfTrials = 0 /\ trial = 0 /\ itrs = 0
    /\ policy = Empty /\ trace = << >> /\ energy = 0 /\ executed = << >>
    /\ result = <<"none">>
    /\ hadExperience = FALSE

\* ------------------------------------------------------------------ Agent
\* clearExperience, l.323-334
\* (mutant) clearExperience forgetting to reset the utilities
ClearedButUtilities == [transs |-> Empty, utils |-> uTable, freqs |-> Empty]

ClearedTables == EmptyTables

clearExperience ==
    /\ nTable' = ClearedTables.freqs
    /\ transTable' = ClearedTables.transs
    /\ uTable' = ClearedTables.utils
    /\ results' = << >>

\* getPolicy, l.336-341
\* (mutant) the least pair instead of the greatest
PolicyActionLeast(transs, utils, s) ==
    LET pairs == _getEstimates(transs, utils, s, << >>)
    IN (CHOOSE p \in Range(pairs) : \A q \in Range(pairs) : ~PairLess(q, p))[2]

PolicyAction(transs, utils, s) == max(_getEstimates(transs, utils, s, << >>))[2]

getPolicy(transs, utils) ==
    [s \in DOMAIN transs |-> PolicyAction(transs, utils, s)]

\* ------------------------------------------------------- strategies: pieces
\* The estimate routine a strategy uses (l.148, l.224, l.294).
Estimates(a, k, transs, utils, s, acts) ==
    IF a = "adp_optimistic_rewards"
    THEN _getEstimatesOptimistic(transs, utils, s, k.R_plus, k.N_e, acts)
    ELSE _getEstimates(transs, utils, s, acts)

\* Whether the best action is computed before the loop (l.124, l.270; the
\* experience-scaled strategy has it commented out, l.199-201).
ComputesBestFirst(a, utils) ==
    a # "adp_random_exploration_state" /\ Len0(utils) > 0

\* random.random() < p can come out true (l.128, l.205; never at l.274)
CanExplore(a, tt, best) ==
    \/ best = None
    \/ a = "adp_random_exploration"
    \/ a = "adp_random_exploration_state"

\* ... and can come out false: 1/log(t+1) < 1 needs t > e - 1 (l.128);
\* 1/(len(freqs)+1) is at most 1/2 (l.204-205); l.274 tests bestAction only.
CanExploit(a, tt, best) ==
    /\ best # None
    /\ (a = "adp_random_exploration" => tt > 17)

\* (mutant) the count of the state being left incremented
IncFreqLeaving(freqs, newState) == Put(freqs, state, Get(freqs, state, 0) + 1)

\* freqs.setdefault(newState, 0); freqs[newState] += 1   (l.138-139)
IncFreq(freqs, newState) == Put(freqs, newState, Get(freqs, newState, 0) + 1)

\* transs.setdefault(state, {}).setdefault(bestAction, {})
\*       .setdefault(newState, 0); transs[...] += 1         (l.143-144)
\* (mutant) the entry created by setdefault but the += 1 left out
IncTransNoCount(transs, s, a, newState) ==
    LET byAction == Get(transs, s, Empty)
        bySucc == Get(byAction, a, Empty)
    IN Put(transs, s, Put(byAction, a, Put(bySucc, newState, Get(bySucc, newState, 0))))

\* (mutant) the state's entry assigned instead of filled in with setdefault
IncTransOverwrite(transs, s, a, newState) == Put(transs, s, (a :> (newState :> 1)))

IncTrans(transs, s, a, newState) ==
    LET byAction == Get(transs, s, Empty)
        bySucc == Get(byAction, a, Empty)
    IN Put(transs, s, Put(byAction, a, Put(bySucc, newState, Get(bySucc, newState, 0) + 1)))

\* The reward the update adds: the running reward variable, which holds the
\* reward of the previous step, not new_reward (l.151, l.227, l.297)
\* (mutant) the reward just received
UpdateRewardReceived(r_prev, new_reward) == new_reward

UpdateReward(r_prev, new_reward) == r_prev

\* The step size the update multiplies by (l.151, l.227, l.297)
StepSize(k, n) == _alpha(n)

\* (mutant) the new value added to the entry instead of replacing it
UpdateUtilityRunning(k, utils, freqs, s, r, rewardEstimate) ==
    Put(utils, s, RAdd(Get(utils, s, RInt(0)),
                       RAdd(RInt(r), RMul(StepSize(k, Get(freqs, s, 0)), rewardEstimate))))

\* (mutant) no entry written for a value of 0
UpdateUtilitySkipsZero(k, utils, freqs, s, r, rewardEstimate) ==
    LET u == RAdd(RInt(r), RMul(StepSize(k, Get(freqs, s, 0)), rewardEstimate))
    IN IF u = RInt(0) /\ s \notin DOMAIN utils THEN utils ELSE Put(utils, s, u)

\* utils[state] = reward + _alpha(freqs.get(state, 0)) * rewardEstimate
UpdateUtility(k, utils, freqs, s, r, rewardEstimate) ==
    Put(utils, s, RAdd(RInt(r), RMul(StepSize(k, Get(freqs, s, 0)), rewardEstimate)))

\* Steps recorded so far in a frequency table (every step adds one, l.139).
RECURSIVE SumCounts(_, _)
SumCounts(f, S) ==
    IF S = {} THEN 0
    ELSE LET x == CHOOSE y \in S : TRUE IN f[x] + SumCounts(f, S \ {x})

Recorded(freqs) == SumCounts(freqs, DOMAIN freqs)

\* The best action carried into the next iteration is the one computed for
\* newState from its own actions (l.159-160, l.229-230, l.305-306).
\* (mutant) the best action of the state being left carried over
CarriedBestOfState(here, next) == here[2]

CarriedBest(here, next) == max(next)[2]

\* The loop is left after a step when the environment signalled termination
\* (while not isTerminal) or the counter reached the cap (if itr >= maxItr).
LoopExits(terminal, i, maxItr) == terminal \/ i >= maxItr

\* ------------------------------------------------------- strategies: calls
\* The locals of a call that has returned are gone.
NoEpisode ==
    /\ state' = 0 /\ reward' = 0 /\ actions' = << >> /\ bestAction' = None
    /\ itr' = 0 /\ isTerminal' = FALSE /\ t' = 10 /\ envCalls' = 0
    /\ owner' = "agent"

NoCall ==
    /\ env' = 1
    /\ alg' = "adp_random_exploration"
    /\ kwargs' = DefaultKwargs("adp_random_exploration")

\* Entry of a strategy up to the while loop (l.109-125, l.189-201, l.255-271).
Begin(a, e, k, who) ==
    LET tb == IF who = "agent"
              THEN [transs |-> transTable, utils |-> uTable, freqs |-> nTable]
              ELSE defaults[a]
        s0 == getStartingState(e)
        acts == getActions(e, s0)
        first == Estimates(a, k, tb.transs, tb.utils, s0, acts)
    IN /\ env' = e /\ alg' = a /\ kwargs' = k /\ owner' = who
       /\ itr' = 0 /\ isTerminal' = FALSE /\ state' = s0 /\ reward' = 0
       /\ actions' = acts /\ t' = k.t /\ envCalls' = 0
       /\ IF ComputesBestFirst(a, tb.utils)
          THEN IF first = << >>
               THEN /\ pc' = "fault" /\ bestAction' = None
               ELSE /\ pc' = "loop" /\ bestAction' = max(first)[2]
          ELSE /\ pc' = "loop" /\ bestAction' = None

\* One iteration of the while loop with the action and the outcome fixed.
Iterate(act, out) ==
    LET tb == Tables
        newState == out[1]
        new_reward == out[2]
        freqs1 == IncFreq(tb.freqs, newState)
        transs1 == IncTrans(tb.transs, state, act, newState)
        here == max(Estimates(alg, kwargs, transs1, tb.utils, state, getActions(env, state)))
        utils1 == UpdateUtility(kwargs, tb.utils, freqs1, state,
                                UpdateReward(reward, new_reward), here[1])
        new_actions == getActions(env, newState)
        next == Estimates(alg, kwargs, transs1, utils1, newState, new_actions)
    IN /\ SetTables([transs |-> transs1, utils |-> utils1, freqs |-> freqs1])
       /\ envCalls' = envCalls + 1
       /\ IF next = << >>
          THEN \* max() of an empty sequence raises at l.160 / l.230 / l.306
               /\ pc' = "fault"
               /\ bestAction' = here[2]
               /\ isTerminal' = out[3]
               /\ UNCHANGED <<state, reward, actions, itr, t>>
          ELSE /\ bestAction' = CarriedBest(here, next)
               /\ actions' = new_actions
               /\ state' = newState
               /\ reward' = new_reward
               /\ isTerminal' = out[3]
               /\ t' = IF alg = "adp_random_exploration" THEN t + kwargs.tStep ELSE t
               /\ itr' = itr + 1
               /\ pc' = IF LoopExits(out[3], itr + 1, kwargs.maxItr) THEN "ret" ELSE "loop"

\* A loop iteration that explores: random.choice(actions) (l.131, l.208, l.277)
Explore ==
    /\ UNCHANGED hadExperience
    /\ pc = "loop"
    /\ Recorded(Tables.freqs) < MaxSteps
    /\ CanExplore(alg, t, bestAction)
    /\ IF actions = << >>
       THEN \* random.choice of an empty sequence raises
            /\ pc' = "fault"
            /\ UNCHANGED <<agentVars, defaults, episodeVars, envCalls>>
       ELSE \E act \in Range(actions) : \E out \in do(env, state, act) :
                Iterate(act, out)
    /\ UNCHANGED <<calls, env, owner, alg, kwargs, learnVars, solveVars, result>>

\* A loop iteration that keeps the best action of the previous step
Exploit ==
    /\ UNCHANGED hadExperience
    /\ pc = "loop"
    /\ Recorded(Tables.freqs) < MaxSteps
    /\ CanExploit(alg, t, bestAction)
    /\ \E out \in do(env, state, bestAction) : Iterate(bestAction, out)
    /\ UNCHANGED <<calls, env, owner, alg, kwargs, learnVars, solveVars, result>>

\* return itr (l.172, l.239, l.315), back in learn's loop (l.355) or at the
\* caller of a bare call.
Return ==
    /\ UNCHANGED hadExperience
    /\ pc = "ret"
    /\ IF owner = "agent"
       THEN /\ itrs' = itrs + itr
            /\ trial' = trial + 1
            /\ pc' = "learn"
            /\ UNCHANGED <<result, env, alg, kwargs>>
       ELSE /\ pc' = "idle"
            /\ result' = <<"itr", itr>>
            /\ NoCall
            /\ UNCHANGED <<itrs, trial>>
    /\ NoEpisode
    /\ UNCHANGED <<calls, agentVars, defaults, numOfTrials, solveVars>>

\* ------------------------------------------------------------ Agent.learn
\* l.352-353: itrs = 0; self.clearExperience()
Learn(e, a, n, k) ==
    /\ pc = "idle"
    /\ calls < MaxCalls
    /\ calls' = calls + 1
    /\ clearExperience
    /\ itrs' = 0 /\ trial' = 0 /\ numOfTrials' = n
    /\ env' = e /\ alg' = a /\ kwargs' = k /\ owner' = "agent"
    /\ pc' = "learn"
    /\ result' = <<"none">>
    /\ hadExperience' = (transTable # Empty)
    /\ UNCHANGED <<defaults, episodeVars, envCalls, solveVars>>

\* l.354-361: the next trial calls the strategy with the agent's tables
Trial ==
    /\ UNCHANGED hadExperience
    /\ pc = "learn"
    /\ trial < numOfTrials
    /\ Begin(alg, env, kwargs, "agent")
    /\ UNCHANGED <<calls, agentVars, defaults, learnVars, solveVars, result>>

\* l.362: return self.getPolicy()
LearnReturn ==
    /\ UNCHANGED hadExperience
    /\ pc = "learn"
    /\ trial >= numOfTrials
    /\ pc' = "idle"
    /\ result' = <<"policy", getPolicy(transTable, uTable)>>
    /\ NoCall
    /\ numOfTrials' = 0 /\ trial' = 0 /\ itrs' = 0
    /\ UNCHANGED <<calls, agentVars, defaults, owner, episodeVars, envCalls,
                   solveVars>>

LearnCall ==
    \E e \in LearnEnvs, a \in Algs, n \in 0..MaxTrials :
        \E k \in KwargsOf(a) : Learn(e, a, n, k)

ClearCall ==
    /\ UNCHANGED hadExperience
    /\ pc = "idle"
    /\ calls < MaxCalls
    /\ calls' = calls + 1
    /\ clearExperience
    /\ result' = <<"none">>
    /\ UNCHANGED <<pc, env, defaults, owner, alg, kwargs, episodeVars, envCalls,
                   learnVars, solveVars>>

PolicyCall ==
    /\ UNCHANGED hadExperience
    /\ pc = "idle"
    /\ calls < MaxCalls
    /\ calls' = calls + 1
    /\ result' = <<"policy", getPolicy(transTable, uTable)>>
    /\ UNCHANGED <<pc, env, agentVars, defaults, owner, alg, kwargs, episodeVars,
                   envCalls, learnVars, solveVars>>

\* ------------------------------------------------------------ Agent.solve
\* The accumulated reward below which solve gives up (l.382)
AbortBelow == -1000

\* (mutant) the comparison turned round
AbortsAbove(total) == total > -AbortBelow

Aborts(total) == total < AbortBelow

\* actions.append(act) (l.379) and energy += reward (l.380)
\* (mutant) the trace overwritten instead of appended to
RecordLast(tr, act) == <<act>>

Record(tr, act) == Append(tr, act)

Accumulate(total, r) == total + r

\* The policies handed to solve: any mapping of some states to legal actions
PoliciesOf(e) ==
    UNION {{p \in [D -> 0..2] : \A s \in D : p[s] \in Range(getActions(e, s))} :
             D \in SUBSET StatesOf(e)}

\* l.366-370
Solve(e, p) ==
    /\ UNCHANGED hadExperience
    /\ pc = "idle"
    /\ calls < MaxCalls
    /\ calls' = calls + 1
    /\ env' = e /\ policy' = p
    /\ trace' = << >> /\ energy' = 0 /\ executed' = << >>
    /\ state' = getStartingState(e) /\ isTerminal' = FALSE
    /\ pc' = "solve"
    /\ result' = <<"none">>
    /\ UNCHANGED <<agentVars, defaults, owner, alg, kwargs, reward, actions,
                   bestAction, itr, t, envCalls, learnVars>>

SolveCall == \E e \in Envs : \E p \in PoliciesOf(e) : Solve(e, p)

\* One iteration of solve's loop (l.371-383); isTerminal is isTerminalState.
SolveIterate(act, out) ==
    /\ state' = out[1]
    /\ isTerminal' = out[3]
    /\ trace' = Record(trace, act)
    /\ energy' = Accumulate(energy, out[2])
    /\ executed' = Append(executed, <<state, act, out[2]>>)
    /\ envCalls' = envCalls + 1
    /\ pc' = IF Aborts(Accumulate(energy, out[2])) \/ out[3] THEN "solved" ELSE "solve"

SolveStep ==
    /\ UNCHANGED hadExperience
    /\ pc = "solve"
    /\ Len(trace) < MaxSolveSteps
    /\ LET act == Get(policy, state, None)
           legal == getActions(env, state)
       IN IF act = None
          THEN IF legal = << >>
               THEN \* random.choice of an empty sequence raises (l.375)
                    /\ pc' = "fault"
                    /\ UNCHANGED <<state, isTerminal, trace, energy, executed, envCalls>>
               ELSE \E a \in Range(legal) : \E out \in do(env, state, a) :
                        SolveIterate(a, out)
          ELSE \E out \in do(env, state, act) : SolveIterate(act, out)
    /\ UNCHANGED <<calls, env, agentVars, defaults, owner, alg, kwargs, reward,
                   actions, bestAction, itr, t, learnVars, policy, result>>

\* l.385: return actions, energy
SolveReturn ==
    /\ UNCHANGED hadExperience
    /\ pc = "solved"
    /\ pc' = "idle"
    /\ result' = <<"solve", trace, energy>>
    /\ NoEpisode /\ NoCall
    /\ policy' = Empty /\ trace' = << >> /\ energy' = 0 /\ executed' = << >>
    /\ UNCHANGED <<calls, agentVars, defaults, learnVars>>

\* ------------------------------------------------- a bare strategy call
\* A strategy called with the environment and options only: transs, utils
\* and freqs are the function's default argument objects (l.83, l.175, l.242).
Bare(a, e, k) ==
    /\ UNCHANGED hadExperience
    /\ pc = "idle"
    /\ calls < MaxCalls
    /\ calls' = calls + 1
    /\ Begin(a, e, k, "default")
    /\ result' = <<"none">>
    /\ UNCHANGED <<agentVars, defaults, learnVars, solveVars>>

BareCall == \E a \in Algs, e \in LearnEnvs : \E k \in KwargsOf(a) : Bare(a, e, k)

Next ==
    \/ LearnCall
    \/ Trial
    \/ Explore
    \/ Exploit
    \/ Return
    \/ LearnReturn
    \/ ClearCall
    \/ PolicyCall

Spec == Init /\ [][Next]_vars

NextSolve ==
    \/ SolveCall
    \/ SolveStep
    \/ SolveReturn

SpecSolve == Init /\ [][NextSolve]_vars

NextBare ==
    \/ BareCall
    \/ Explore
    \/ Exploit
    \/ Return

SpecBare == Init /\ [][NextBare]_vars

\* ------------------------------------------- the estimate routines alone
\* The routines applied to tables, a state and candidate actions drawn from
\* bounded sets: transTable, uTable, state, actions and kwargs hold the
\* arguments, result what the call gave.
Reverse(seq) == [i \in DOMAIN seq |-> seq[Len(seq) + 1 - i]]

SuccessorCounts ==
    UNION {[D -> 1..MaxCount] : D \in (SUBSET (0..1)) \ {{}}}

\* Transition models with at most the state 0 recorded
EstTranss ==
    LET byAction == UNION {[D -> SuccessorCounts] : D \in SUBSET (0..1)}
    IN {IF m = Empty THEN Empty ELSE (0 :> m) : m \in byAction}

EstUtils ==
    UNION {[D -> {<<0, 1>>, <<1, 1>>, <<-1, 2>>}] : D \in SUBSET (0..1)}

EstCandidates == {<< >>, <<1>>, <<0, 1>>, <<1, 0>>}

InitEst ==
    /\ pc = "idle"
    /\ calls = 0
    /\ env = 1
    /\ nTable = Empty /\ results = << >>
    /\ transTable \in EstTranss
    /\ uTable \in EstUtils
    /\ defaults = [a \in Algs |-> EmptyTables]
    /\ owner = "agent"
    /\ alg = "adp_optimistic_rewards"
    /\ kwargs \in {[DefaultKwargs("adp_optimistic_rewards") EXCEPT !.N_e = ne] :
                      ne \in {0, 1, 2, 12}}
    /\ state = 0 /\ reward = 0 /\ bestAction = None
    /\ actions \in EstCandidates
    /\ itr = 0 /\ isTerminal = FALSE /\ t = 10
    /\ envCalls = 0
    /\ numOfTrials = 0 /\ trial = 0 /\ itrs = 0
    /\ policy = Empty /\ trace = << >> /\ energy = 0 /\ executed = << >>
    /\ result = <<"none">>
    /\ hadExperience = FALSE

\* What a call of a routine leaves: its value, or the exception it raised
Returned(kind, value) ==
    /\ pc = "idle"
    /\ result = <<"none">>
    /\ IF DividesByZero(transTable, state, actions)
       THEN pc' = "fault" /\ result' = <<"raised", "ZeroDivisionError">>
       ELSE IF kind = "best" /\ value = << >>
       THEN pc' = "fault" /\ result' = <<"raised", "ValueError">>
       ELSE pc' = "idle" /\ result' = <<kind, value>>
    /\ UNCHANGED <<calls, env, agentVars, defaults, owner, alg, kwargs,
                   episodeVars, envCalls, learnVars, solveVars, hadExperience>>

\* _getEstimates(transs, utils, currState, currActions)
PlainCall == Returned("plain", _getEstimates(transTable, uTable, state, actions))

\* _getEstimatesOptimistic(transs, utils, currState, R_plus, N_e, currActions)
OptimisticCall ==
    Returned("optimistic",
             _getEstimatesOptimistic(transTable, uTable, state,
                                     kwargs.R_plus, kwargs.N_e, actions))

\* max(_getEstimates(...)), the selection of l.148 and l.340
SelectCall ==
    LET pairs == _getEstimates(transTable, uTable, state, actions)
    IN Returned("best", IF pairs = << >> THEN << >> ELSE max(pairs))

NextEst ==
    \/ PlainCall
    \/ OptimisticCall
    \/ SelectCall

SpecEst == InitEst /\ [][NextEst]_vars

\* ===================================================================
\* Properties
\* ===================================================================
RECURSIVE SumRewards(_)
SumRewards(steps) ==
    IF steps = << >> THEN 0 ELSE steps[1][3] + SumRewards(Tail(steps))

FreqMonotone(f, g) == \A s \in DOMAIN f : s \in DOMAIN g /\ g[s] >= f[s]

TransMonotone(T, T2) ==
    \A s \in DOMAIN T :
        /\ s \in DOMAIN T2
        /\ \A a \in DOMAIN T[s] :
              /\ a \in DOMAIN T2[s]
              /\ \A x \in DOMAIN T[s][a] :
                    x \in DOMAIN T2[s][a] /\ T2[s][a][x] >= T[s][a][x]

\* C1: no episode of a strategy (hence no learn) ends in a fault, also when
\* getActions of a terminal state without recorded transitions is empty.
C1_NoFault == pc # "fault"

\* C2: learn starts from empty tables whatever was learned before, runs
\* exactly numOfTrials episodes, each from the starting state and on the
\* agent's own tables, which are kept between episodes, and returns the
\* policy of the tables as they are after the last episode.
C2_LearnSequence ==
    [][/\ (pc = "idle" /\ pc' = "learn") =>
            /\ nTable' = Empty /\ transTable' = Empty /\ uTable' = Empty
            /\ trial' = 0
       /\ (pc = "learn" /\ pc' \in {"loop", "fault"}) =>
            /\ trial < numOfTrials
            /\ state' = getStartingState(env)
            /\ owner' = "agent"
            /\ agentVars' = agentVars
       /\ (pc = "loop") => defaults' = defaults
       /\ (pc = "ret" /\ pc' = "learn") =>
            /\ trial' = trial + 1
            /\ agentVars' = agentVars
       /\ (pc = "learn" /\ pc' = "idle") =>
            /\ trial = numOfTrials
            /\ agentVars' = agentVars
            /\ result' = <<"policy",
                           [s \in DOMAIN transTable |->
                               max(_getEstimates(transTable, uTable, s, << >>))[2]]>>
      ]_vars

C2_Witness ==
    /\ pc = "learn" /\ hadExperience
    /\ numOfTrials = 2 /\ trial = 2
    /\ transTable # Empty

\* C3: the policy has exactly the states of the transition model as keys,
\* and the action of each is recorded for that state and has the greatest
\* plain estimate among the recorded ones.
C3_Policy ==
    LET p == getPolicy(transTable, uTable)
    IN /\ DOMAIN p = DOMAIN transTable
       /\ \A s \in DOMAIN p :
            /\ p[s] \in DOMAIN transTable[s]
            /\ \A a \in DOMAIN transTable[s] :
                  ~RLess(ExpectedUtility(transTable, uTable, s, p[s]),
                         ExpectedUtility(transTable, uTable, s, a))
       /\ result[1] = "policy" => result[2] = p

C3_Witness ==
    /\ result[1] = "policy"
    /\ \E s \in DOMAIN transTable : \E a, b \in DOMAIN transTable[s] :
          /\ RLess(ExpectedUtility(transTable, uTable, s, a),
                   ExpectedUtility(transTable, uTable, s, b))
          /\ a > b
          /\ result[2][s] = b

\* C4: solve's trace has one action per executed step, its total is the sum
\* of the steps' rewards, a step from a mapped state executes the policy's
\* action; on the chain, fully mapped, the trace is the chain and the total
\* the sum of its rewards.
C4_Trace ==
    pc \in {"solve", "solved"} =>
        /\ Len(trace) = envCalls
        /\ Len(executed) = envCalls
        /\ energy = SumRewards(executed)
        /\ \A i \in DOMAIN executed :
              /\ trace[i] = executed[i][2]
              /\ executed[i][1] \in DOMAIN policy => trace[i] = policy[executed[i][1]]
        /\ (pc = "solved" /\ env = 1 /\ policy = (0 :> 1 @@ 1 :> 1)) =>
              (trace = <<1, 1>> /\ energy = 3)

C4_Witness ==
    /\ pc = "solved" /\ env = 1
    /\ policy = (0 :> 1 @@ 1 :> 1)
    /\ Len(trace) = 2

\* C5: solve takes no step once the total is below -1000; where every step
\* costs 2000 and nothing terminates it returns after the first step.
C5_Abort ==
    /\ pc = "solve" => energy >= AbortBelow
    /\ (env = 2 /\ pc \in {"solve", "solved"}) => Len(trace) <= 1
    /\ (env = 2 /\ pc = "solved") => (trace = <<0>> /\ energy = -2000)

C5_Witness == env = 2 /\ pc = "solved" /\ energy = -2000 /\ envCalls = 1

\* C6: an episode returns the number of steps it executed, which never
\* exceeds maxItr, whatever maxItr is.
C6_Capped == pc = "ret" => (itr = envCalls /\ itr <= kwargs.maxItr)

\* C7: with a step-size function supplied through the alpha option, every
\* utility update multiplies the best estimate by that function of N[state].
C7_Pluggable ==
    [][(pc = "loop" /\ envCalls' = envCalls + 1 /\ kwargs.alpha = "unit") =>
          LET best == max(Estimates(alg, kwargs, transTable', uTable, state,
                                    getActions(env, state)))[1]
          IN uTable'[state] =
                RAdd(RInt(reward),
                     RMul(Schedule(kwargs.alpha, Get(nTable', state, 0)), best))
      ]_vars

\* C8: a strategy called without tables starts with fresh empty ones.
C8_FreshTables ==
    (pc = "loop" /\ owner = "default" /\ itr = 0) => defaults[alg] = EmptyTables

\* C9: apart from clearExperience and the start of learn, which leave the
\* three tables empty, no step lowers or removes a frequency count or a
\* transition count.
ClearingStep ==
    /\ pc = "idle"
    /\ \/ pc' = "learn"                                   \* learn's entry
       \/ calls' = calls + 1 /\ result' = <<"none">>      \* clearExperience

C9_Monotone ==
    [][IF ClearingStep
       THEN nTable' = Empty /\ transTable' = Empty /\ uTable' = Empty
       ELSE FreqMonotone(nTable, nTable') /\ TransMonotone(transTable, transTable')
      ]_vars

C9_Witness ==
    /\ pc = "loop" /\ trial >= 1
    /\ \E s \in DOMAIN nTable : nTable[s] >= 2
    /\ \E s \in DOMAIN transTable : \E a \in DOMAIN transTable[s] :
          \E x \in DOMAIN transTable[s][a] : transTable[s][a][x] >= 2

\* C10: during a learning run every action recorded under a state is one of
\* the actions getActions gives for that state.
C10_ActionsLegal ==
    pc \in {"learn", "loop", "ret", "fault"} =>
        \A s \in DOMAIN transTable : \A a \in DOMAIN transTable[s] :
            a \in Range(getActions(env, s))

C10_Witness ==
    /\ pc = "loop" /\ env = 1 /\ trial >= 1 /\ bestAction # None
    /\ 0 \in DOMAIN transTable /\ 0 \in DOMAIN transTable[0]
    /\ 1 \in DOMAIN transTable /\ 2 \in DOMAIN transTable[1]

\* The probabilities the estimate routines derive for (s, a): float(val) / n
\* for every successor count val, n being their sum (l.53-54).
ProbabilitySum(transs, s, a) ==
    LET freq == transs[s][a]
        keys == SetToSeq(DOMAIN freq)
        n == ObservationCount(transs, s, a)
    IN RSum([i \in DOMAIN keys |-> Norm(freq[keys[i]], n)])

\* C11: every state of the transition model has an action, every recorded
\* (state, action) a successor, every recorded count is at least 1, and the
\* probabilities derived for a recorded (state, action) add up to 1.
C11_Counts ==
    \A s \in DOMAIN transTable :
        /\ DOMAIN transTable[s] # {}
        /\ \A a \in DOMAIN transTable[s] :
              /\ DOMAIN transTable[s][a] # {}
              /\ \A x \in DOMAIN transTable[s][a] : transTable[s][a][x] >= 1
              /\ ProbabilitySum(transTable, s, a) = RInt(1)

C11_Witness ==
    \E s \in DOMAIN transTable : \E a \in DOMAIN transTable[s] :
        /\ Cardinality(DOMAIN transTable[s][a]) >= 2
        /\ \E x \in DOMAIN transTable[s][a] : transTable[s][a][x] >= 2

\* C12: a candidate action without successor counts (the state may be absent
\* from the model altogether) makes neither routine divide by zero, and the
\* plain routine gives it the expected utility 0.
C12_ZeroObservations ==
    LET cand == Candidates(transTable, state, actions)
        unseen == {i \in DOMAIN cand : ObservationCount(transTable, state, cand[i]) = 0}
    IN unseen # {} =>
          /\ result # <<"raised", "ZeroDivisionError">>
          /\ result[1] = "plain" =>
                \A i \in unseen : result[2][i] = <<RInt(0), cand[i]>>
          /\ result[1] = "optimistic" => Len(result[2]) = Len(cand)

C12_Witness ==
    /\ result[1] = "plain"
    /\ Len(result[2]) = 2
    /\ ObservationCount(transTable, state, result[2][1][2]) = 0
    /\ result[2][2][1] # RInt(0)

\* C14: the selected pair depends only on the set of (estimate, action)
\* pairs: it is the greatest of them, and listing the candidates in the
\* opposite order selects the same action.
C14_Deterministic ==
    result[1] = "best" =>
        LET pairs == _getEstimates(transTable, uTable, state, actions)
            back == _getEstimates(transTable, uTable, state, Reverse(actions))
        IN /\ result[2] = max(back)
           /\ result[2] \in Range(pairs)
           /\ \A q \in Range(pairs) : ~PairLess(result[2], q)

C14_Witness ==
    /\ result[1] = "best"
    /\ Len(actions) = 2
    /\ LET pairs == _getEstimates(transTable, uTable, state, actions)
       IN pairs[1][1] = pairs[2][1] /\ pairs[1][1] # RInt(0) /\ pairs[1][2] > pairs[2][2]

\* C17: the optimistic routine emits one pair per candidate action, with
\* R_plus for the actions observed fewer than N_e times and the plain
\* routine's value for every other one.
C17_Substitution ==
    result[1] = "optimistic" =>
        LET cand == Candidates(transTable, state, actions)
            plain == _getEstimates(transTable, uTable, state, actions)
        IN /\ Len(result[2]) = Len(cand)
           /\ \A i \in DOMAIN cand :
                 /\ result[2][i][2] = cand[i]
                 /\ result[2][i][1] =
                       IF ObservationCount(transTable, state, cand[i]) < kwargs.N_e
                       THEN RInt(kwargs.R_plus)
                       ELSE plain[i][1]

C17_Witness ==
    /\ result[1] = "optimistic"
    /\ Len(result[2]) = 2
    /\ ObservationCount(transTable, state, result[2][1][2]) < kwargs.N_e
    /\ ObservationCount(transTable, state, result[2][2][2]) >= kwargs.N_e
    /\ result[2][1][1] = RInt(kwargs.R_plus)
    /\ result[2][2][1] = <<-1, 2>>

\* The value the optimistic routine gives to one action of a state
OptimisticValue(s, a) ==
    _getEstimatesOptimistic(transTable, uTable, s, kwargs.R_plus, kwargs.N_e, <<a>>)[1][1]

\* C13: in the xy environment (action 1 is X, reward 10; action 0 is Y,
\* reward 0) learnt by the optimistic strategy with N_e = 1, after the first
\* trial the action not yet taken is valued above the action taken, and once
\* both actions have been taken from the start state X is valued above Y.
C13_Optimism ==
    (/\ pc = "learn" /\ trial >= 1
     /\ env = 3 /\ alg = "adp_optimistic_rewards" /\ kwargs.N_e = 1) =>
        LET n(a) == ObservationCount(transTable, 0, a)
        IN /\ \A a, b \in 0..1 :
                 (trial = 1 /\ n(a) = 0 /\ n(b) > 0) =>
                     RLess(OptimisticValue(0, b), OptimisticValue(0, a))
           /\ (n(0) > 0 /\ n(1) > 0) =>
                 RLess(OptimisticValue(0, 0), OptimisticValue(0, 1))

\* The first half of C13 alone
C13_FirstTrial ==
    (/\ pc = "learn" /\ trial = 1
     /\ env = 3 /\ alg = "adp_optimistic_rewards" /\ kwargs.N_e = 1) =>
        \A a, b \in 0..1 :
            (ObservationCount(transTable, 0, a) = 0
               /\ ObservationCount(transTable, 0, b) > 0) =>
                RLess(OptimisticValue(0, b), OptimisticValue(0, a))

\* A step of an episode: env.do was called once more
EpisodeStep == pc = "loop" /\ envCalls' = envCalls + 1

\* C15: a step sets the utility of the state it leaves to the reward carried
\* from the previous step (0 on the first step of an episode) plus the step
\* size of that state's visit count, read after the count of the entered
\* state was incremented, times the best estimate of the state's actions under
\* the transition model that already holds this step; the reward of this step
\* is only carried on, and no other utility entry changes.
C15_Update ==
    [][EpisodeStep =>
          LET best == max(Estimates(alg, kwargs, transTable', uTable, state,
                                    getActions(env, state)))[1]
          IN /\ uTable' = Put(uTable, state,
                              RAdd(RInt(reward),
                                   RMul(_alpha(Get(nTable', state, 0)), best)))
             /\ itr = 0 => reward = 0
             /\ pc' # "fault" =>
                   \E a \in Range(getActions(env, state)) :
                       \E out \in do(env, state, a) :
                           /\ state' = out[1] /\ reward' = out[2]
                           /\ transTable' = IncTrans(transTable, state, a, out[1])
      ]_vars

C15_Witness ==
    /\ pc \in {"loop", "ret"}
    /\ itr >= 2
    /\ reward > 0
    /\ \E s \in DOMAIN uTable : RLess(uTable[s], RInt(0))

\* Total of the successor counts of a transition model
TransTotal(transs) ==
    SumCounts([s \in DOMAIN transs |->
                  SumCounts([a \in DOMAIN transs[s] |-> ObservationCount(transs, s, a)],
                            DOMAIN transs[s])],
              DOMAIN transs)

\* The count a transition model holds for (s, a, x), 0 when it has none
CountOf(transs, s, a, x) == Get(Get(Get(transs, s, Empty), a, Empty), x, 0)

\* C16: a step adds exactly 1 to the frequency count of the state entered
\* and to the transition count of (state left, action, state entered),
\* creating the entries when absent, and changes no other count; the count
\* of the state left changes only in a self-loop.
C16_Counts ==
    [][EpisodeStep =>
          \E a \in Range(getActions(env, state)) : \E out \in do(env, state, a) :
              LET entered == out[1]
              IN /\ DOMAIN nTable' = DOMAIN nTable \cup {entered}
                 /\ \A x \in DOMAIN nTable' :
                       nTable'[x] = Get(nTable, x, 0) + (IF x = entered THEN 1 ELSE 0)
                 /\ entered # state => Get(nTable', state, 0) = Get(nTable, state, 0)
                 /\ DOMAIN transTable' = DOMAIN transTable \cup {state}
                 /\ \A s \in DOMAIN transTable' :
                       /\ DOMAIN transTable'[s] =
                             DOMAIN Get(transTable, s, Empty)
                                \cup (IF s = state THEN {a} ELSE {})
                       /\ \A b \in DOMAIN transTable'[s] :
                             /\ DOMAIN transTable'[s][b] =
                                   DOMAIN Get(Get(transTable, s, Empty), b, Empty)
                                      \cup (IF s = state /\ b = a THEN {entered} ELSE {})
                             /\ \A x \in DOMAIN transTable'[s][b] :
                                   transTable'[s][b][x] =
                                      CountOf(transTable, s, b, x)
                                        + (IF s = state /\ b = a /\ x = entered
                                           THEN 1 ELSE 0)
                 /\ pc' # "fault" => state' = entered
      ]_vars

C16_Witness ==
    /\ pc = "loop"
    /\ itr >= 1
    /\ \E s \in DOMAIN transTable : \E a \in DOMAIN transTable[s] :
          s \in DOMAIN transTable[s][a] /\ state # s
    /\ Get(nTable, 0, 0) >= 1

\* C18: from empty tables on, the states with a utility entry are the states
\* with an entry in the transition model; a state that was entered and never
\* left has neither, and its utility reads as 0.
C18_SameStates ==
    /\ DOMAIN uTable = DOMAIN transTable
    /\ \A s \in DOMAIN nTable \ DOMAIN transTable :
          s \notin DOMAIN uTable /\ Get(uTable, s, RInt(0)) = RInt(0)

C18_Witness ==
    /\ pc = "learn"
    /\ DOMAIN nTable \ DOMAIN transTable # {}
    /\ \E s \in DOMAIN uTable : uTable[s] = RInt(0)
    /\ \E s \in DOMAIN uTable : uTable[s] # RInt(0)

\* C19: from empty tables on, the frequency counts, the successor counts and
\* the iteration counts of the episodes run so far (those returned to learn,
\* and the steps counted by the episode under way) have the same sum.
C19_Sums ==
    pc \in {"learn", "loop", "ret", "fault"} =>
        /\ Recorded(nTable) = TransTotal(transTable)
        /\ Recorded(nTable) = itrs + itr

\* C19 for the episodes that returned their count
C19_Returned ==
    pc \in {"learn", "loop", "ret"} =>
        /\ Recorded(nTable) = TransTotal(transTable)
        /\ Recorded(nTable) = itrs + itr

\* An environment whose only non-zero rewards are given on entering a
\* terminal state
OnlyTerminalRewards(e) ==
    \A s \in StatesOf(e) : \A a \in Range(getActions(e, s)) :
        \A out \in do(e, s, a) : out[2] # 0 => out[3]

\* C20: the reward of the last step of an episode is used by no update: an
\* episode starts with the carried reward 0, and where only entering a
\* terminal state is rewarded the plain strategies leave every utility 0.
C20_LastRewardLost ==
    /\ (pc = "loop" /\ itr = 0) => reward = 0
    /\ (/\ pc \in {"learn", "loop", "ret", "fault"}
        /\ alg \in {"adp_random_exploration", "adp_random_exploration_state"}
        /\ OnlyTerminalRewards(env)) =>
           \A s \in DOMAIN uTable : uTable[s] = RInt(0)

C20_Witness ==
    /\ pc = "learn"
    /\ trial >= 2
    /\ alg \in {"adp_random_exploration", "adp_random_exploration_state"}
    /\ env = 7
    /\ Get(nTable, 2, 0) >= 1
    /\ 1 \in DOMAIN uTable

====
